---- MODULE Spec2Model ----
(***************************************************************************)
(* Gollaborate: a character-level sequence CRDT (dense fractional          *)
(* identifiers), its line-segmented document and the peer replication      *)
(* layer.  Positions are sequences of identifiers [digit, node]; a         *)
(* document is a sequence of lines, a line a sequence of characters        *)
(* [pos, clock, value]; values are runes (integers).                       *)
(***************************************************************************)
EXTENDS Integers, Sequences, FiniteSets, TLC

VARIABLES
  \* allocation of one position: the arguments of generatePositionBetween
  \* and what the call produced
  allocLo, allocHi, allocNode, generated,
  \* text conversion: a text, the document FromText builds from it and the
  \* text ToText renders from that document
  srcText, textNode, textDoc, textOut,
  \* one Document under a sequence of InsertCharacter / DeleteCharacter
  \* calls: the document, the document before the last call, the calls
  hdoc, hprev, hist,
  \* two replicas fed the same set of operations: the set, what each replica
  \* has applied so far and each replica's document
  opset, applied, rdoc,
  \* the GUI editor state: its document, the text last seen in the entry
  \* widget, its clock, and whether a text change ended in a panic
  gdoc, lastText, gclock, gpanic,
  \* the peers of the terminal editor: each peer's EditorState document, the
  \* document its TUI holds when that is another one, the TUI's clock, its
  \* connections, the peers whose dial the host has accepted, whether the
  \* peer has terminated, the frames in flight on each directed connection,
  \* the number of edits made, the last step taken, and the operations
  \* written to a connection and applied from one; the messages without
  \* payload each TUI has been told of and has not handled yet
  document, tui, mclock, conns, accepted, crashed, net, edits, lastStep, oplog,
  bare,
  \* one document and a text coordinate in it: the document, the line and the
  \* column, the node asking, the position answered for the coordinate, the
  \* coordinate answered for that position, the document as it was before
  \* the newline was put in, and what deleting the newline returned
  subject, atLine, atCol, atNode, located, coords, whole, merged,
  \* a selection in the cursor manager's document: the document, the two
  \* positions, the text extracted for them and for them in the other order
  selDoc, selFrom, selTo, picked, pickedBack,
  \* replicas allocating in one document: the positions the document holds
  \* and, per allocation, the replica, its neighbours and what it got
  held, tagged,
  \* the tasks of one process around its mutex: where each task is in its
  \* code, who holds the mutex (one writer or some readers), the Document
  \* object the owner of the mutex points to, the object the front-end points
  \* to, and the Sync documents the front-end has been told of and has not
  \* taken yet
  pc, mutex, edoc, mdoc, told,
  \* an editor state used through its own editing methods: its document,
  \* its clock, the operations it has applied in order, how many connections
  \* the broadcast of each has written to, and what has been written to each
  \* connection, in order
  sdoc, sclock, issued, progress, wire

allocVars == <<allocLo, allocHi, allocNode, generated>>

textVars == <<srcText, textNode, textDoc, textOut>>

docVars == <<hdoc, hprev, hist>>

convVars == <<opset, applied, rdoc>>

guiVars == <<gdoc, lastText, gclock, gpanic>>

sysVars == <<document, tui, mclock, conns, accepted, crashed, net, edits, lastStep,
            oplog, bare>>

lineVars == <<subject, atLine, atCol, atNode, located, coords, whole, merged>>

selVars == <<selDoc, selFrom, selTo, picked, pickedBack>>

tagVars == <<held, tagged>>

lockVars == <<pc, mutex, edoc, mdoc, told>>

orderVars == <<sdoc, sclock, issued, progress, wire>>

vars == <<allocVars, textVars, docVars, convVars, guiVars, sysVars, lineVars, selVars,
          tagVars, lockVars, orderVars>>

\* what an action of one part leaves alone: the other parts
exceptAlloc == <<textVars, docVars, convVars, guiVars, sysVars, lineVars, selVars,
              tagVars, lockVars, orderVars>>

exceptText == <<allocVars, docVars, convVars, guiVars, sysVars, lineVars, selVars,
              tagVars, lockVars, orderVars>>

exceptDoc == <<allocVars, textVars, convVars, guiVars, sysVars, lineVars, selVars,
              tagVars, lockVars, orderVars>>

exceptConv == <<allocVars, textVars, docVars, guiVars, sysVars, lineVars, selVars,
              tagVars, lockVars, orderVars>>

exceptGui == <<allocVars, textVars, docVars, convVars, sysVars, lineVars, selVars,
              tagVars, lockVars, orderVars>>

exceptSys == <<allocVars, textVars, docVars, convVars, guiVars, lineVars, selVars,
              tagVars, lockVars, orderVars>>

exceptLine == <<allocVars, textVars, docVars, convVars, guiVars, sysVars, selVars,
              tagVars, lockVars, orderVars>>

exceptSel == <<allocVars, textVars, docVars, convVars, guiVars, sysVars, lineVars,
              tagVars, lockVars, orderVars>>

exceptTag == <<allocVars, textVars, docVars, convVars, guiVars, sysVars, lineVars,
              selVars, lockVars, orderVars>>

exceptLock == <<allocVars, textVars, docVars, convVars, guiVars, sysVars, lineVars,
               selVars, tagVars, orderVars>>

exceptOrder == <<allocVars, textVars, docVars, convVars, guiVars, sysVars, lineVars,
                selVars, tagVars, lockVars>>

\* crdt.go: const BASE = 256
BASE == 256

\* the rune '\n'
NL == 10

\* ------------------------------------------------------------------ results
\* A Go call either returns a value or panics (a failed explicit panic(...)
\* or a runtime error such as a slice bound out of range).
Ok(v) == [panic |-> FALSE, why |-> "", val |-> v]

Panic(msg) == [panic |-> TRUE, why |-> msg, val |-> <<>>]

\* ------------------------------------------------------------ position algebra
Identifier(d, n) == [digit |-> d, node |-> n]

max(a, b) == IF a > b THEN a ELSE b

min(a, b) == IF a < b THEN a ELSE b

\* FromIdentifierList: the digits of a position
FromIdentifierList(identifiers) ==
  [i \in 1..Len(identifiers) |-> identifiers[i].digit]

\* comparePositions: digit, then node, identifier by identifier; then length
RECURSIVE cmpFrom(_, _, _)
cmpFrom(pos1, pos2, i) ==
  IF i > min(Len(pos1), Len(pos2)) THEN Len(pos1) - Len(pos2)
  ELSE IF pos1[i].digit # pos2[i].digit THEN pos1[i].digit - pos2[i].digit
  ELSE IF pos1[i].node # pos2[i].node THEN pos1[i].node - pos2[i].node
  ELSE cmpFrom(pos1, pos2, i + 1)

comparePositions(pos1, pos2) == cmpFrom(pos1, pos2, 1)

\* SubtractGreaterThan(n1, n2) = n1 - n2, digit by digit from the least
\* significant one.  The borrow is taken off n1's digit only where n1 has a
\* digit (i < len(n1)); the final borrow is dropped.
RECURSIVE subLoop(_, _, _, _, _)
subLoop(n1, n2, i, carry, diff) ==
  IF i = 0 THEN diff
  ELSE LET d1 == IF i <= Len(n1) THEN n1[i] - carry ELSE 0
           d2 == IF i <= Len(n2) THEN n2[i] ELSE 0
       IN IF d1 < d2
          THEN subLoop(n1, n2, i - 1, 1, [diff EXCEPT ![i] = d1 + BASE - d2])
          ELSE subLoop(n1, n2, i - 1, 0, [diff EXCEPT ![i] = d1 - d2])

SubtractGreaterThan(n1, n2) ==
  LET n == max(Len(n1), Len(n2))
  IN subLoop(n1, n2, n, 0, [i \in 1..n |-> 0])

\* Add(n1, n2): digit-wise sum with carry; a carry out of the most
\* significant digit panics.
RECURSIVE addLoop(_, _, _, _, _)
addLoop(n1, n2, i, carry, sum) ==
  IF i = 0
  THEN IF carry # 0
       THEN Panic("sum is greater than one, cannot be represented by this type")
       ELSE Ok(sum)
  ELSE LET s == carry + (IF i <= Len(n1) THEN n1[i] ELSE 0)
                      + (IF i <= Len(n2) THEN n2[i] ELSE 0)
       IN addLoop(n1, n2, i - 1, s \div BASE, [sum EXCEPT ![i] = s % BASE])

Add(n1, n2) ==
  LET n == max(Len(n1), Len(n2))
  IN addLoop(n1, n2, n, 0, [i \in 1..n |-> 0])

\* index (1-based) of the first non-zero digit of delta, 0 if there is none
firstNonZeroDigit(delta) ==
  LET nz == {i \in 1..Len(delta) : delta[i] # 0}
  IN IF nz = {} THEN 0 ELSE CHOOSE i \in nz : \A j \in nz : i <= j

\* variant: the increment is added once, whatever the sum ends in
IncrementOnce(n1, delta) ==
  LET f == firstNonZeroDigit(delta)
  IN IF f = 0 THEN Panic("Delta must contain at least one non-zero digit")
     ELSE Add(n1, SubSeq(delta, 1, f - 1) \o <<0, 1>>)

\* Increment(n1, delta): n1 plus an increment smaller than delta
Increment(n1, delta) ==
  LET f == firstNonZeroDigit(delta)
  IN IF f = 0 THEN Panic("Delta must contain at least one non-zero digit")
     ELSE LET inc == SubSeq(delta, 1, f - 1) \o <<0, 1>>
              v1 == Add(n1, inc)
          IN IF v1.panic THEN v1
             ELSE IF v1.val[Len(v1.val)] = 0 THEN Add(v1.val, inc)
             ELSE v1

\* variant: the last identifier is treated as the others are, it takes a
\* neighbour's node where the digit matches
ToIdentifierListUntagged(n, before, after, creationNode) ==
  [index \in 1..Len(n) |->
     IF index <= Len(before) /\ n[index] = before[index].digit
     THEN Identifier(n[index], before[index].node)
     ELSE IF index <= Len(after) /\ n[index] = after[index].digit
          THEN Identifier(n[index], after[index].node)
     ELSE Identifier(n[index], creationNode)]

\* ToIdentifierList: wrap digits into identifiers, reusing the neighbours'
\* nodes where the digit matches; the last identifier carries creationNode
ToIdentifierList(n, before, after, creationNode) ==
  [index \in 1..Len(n) |->
     IF index = Len(n) THEN Identifier(n[index], creationNode)
     ELSE IF index <= Len(before) /\ n[index] = before[index].digit
          THEN Identifier(n[index], before[index].node)
     ELSE IF index <= Len(after) /\ n[index] = after[index].digit
          THEN Identifier(n[index], after[index].node)
     ELSE Identifier(n[index], creationNode)]

\* position[1:] of Go: a runtime panic on an empty slice
Tail1(position) ==
  IF Len(position) = 0 THEN Panic("slice bounds out of range [1:0]")
  ELSE Ok(Tail(position))

\* generatePositionBetween(position1, position2, node)
RECURSIVE generatePositionBetween(_, _, _)
generatePositionBetween(position1, position2, node) ==
  LET head1 == IF Len(position1) > 0 THEN position1[1] ELSE Identifier(0, node)
      head2 == IF Len(position2) > 0 THEN position2[1] ELSE Identifier(BASE, node)
      prefix(rest) == IF rest.panic THEN rest ELSE Ok(<<head1>> \o rest.val)
  IN IF head1.digit # head2.digit
     THEN LET n1 == FromIdentifierList(position1)
              n2 == FromIdentifierList(position2)
              delta == SubtractGreaterThan(n2, n1)
              next == Increment(n1, delta)
          IN IF next.panic THEN next
             ELSE Ok(ToIdentifierList(next.val, position1, position2, node))
     ELSE IF head1.node < head2.node
          THEN LET t1 == Tail1(position1)
               IN IF t1.panic THEN t1
                  ELSE prefix(generatePositionBetween(t1.val, <<>>, node))
     ELSE IF head1.node = head2.node
          THEN LET t1 == Tail1(position1)
                   t2 == Tail1(position2)
               IN IF t1.panic THEN t1
                  ELSE IF t2.panic THEN t2
                  ELSE prefix(generatePositionBetween(t1.val, t2.val, node))
     ELSE Panic("invalid node ordering")

\* ------------------------------------------------------------------ document
Character(pos, clock, value) == [pos |-> pos, clock |-> clock, value |-> value]

\* all characters of the lines, line after line
RECURSIVE flatten(_)
flatten(lines) ==
  IF lines = <<>> THEN <<>> ELSE Head(lines) \o flatten(Tail(lines))

\* sort.Slice on fewer than 12 elements is an insertion sort: element i is
\* swapped down while it is less than its predecessor
RECURSIVE insertSorted(_, _)
insertSorted(sorted, c) ==
  IF sorted = <<>> THEN <<c>>
  ELSE LET last == sorted[Len(sorted)]
       IN IF comparePositions(c.pos, last.pos) < 0
          THEN insertSorted(SubSeq(sorted, 1, Len(sorted) - 1), c) \o <<last>>
          ELSE sorted \o <<c>>

RECURSIVE sortSlice(_, _)
sortSlice(chars, i) ==
  IF i = 0 THEN <<>> ELSE insertSorted(sortSlice(chars, i - 1), chars[i])

\* getAllCharacters: every character of the document, sorted by position
getAllCharacters(d) == LET all == flatten(d) IN sortSlice(all, Len(all))

\* getLineAndCharIndex(charIndex): 0-based line and index in that line
RECURSIVE lineOf(_, _, _, _)
lineOf(d, charIndex, lineIdx, currentIndex) ==
  IF lineIdx >= Len(d)
  THEN IF Len(d) = 0 THEN <<0, 0>> ELSE <<Len(d) - 1, Len(d[Len(d)])>>
  ELSE IF currentIndex + Len(d[lineIdx + 1]) > charIndex
       THEN <<lineIdx, charIndex - currentIndex>>
       ELSE lineOf(d, charIndex, lineIdx + 1, currentIndex + Len(d[lineIdx + 1]))

\* variant: a line is taken as soon as it reaches the index: an index at a
\* line's start lands at the end of the line before
RECURSIVE lineOfInclusive(_, _, _, _)
lineOfInclusive(d, charIndex, lineIdx, currentIndex) ==
  IF lineIdx >= Len(d)
  THEN IF Len(d) = 0 THEN <<0, 0>> ELSE <<Len(d) - 1, Len(d[Len(d)])>>
  ELSE IF currentIndex + Len(d[lineIdx + 1]) >= charIndex
       THEN <<lineIdx, charIndex - currentIndex>>
       ELSE lineOfInclusive(d, charIndex, lineIdx + 1,
                            currentIndex + Len(d[lineIdx + 1]))

getLineAndCharIndexInclusive(d, charIndex) == lineOfInclusive(d, charIndex, 0, 0)

getLineAndCharIndex(d, charIndex) == lineOf(d, charIndex, 0, 0)

\* findInsertionPoint: before the first character (in sorted order) whose
\* position is greater than the given one, else the end of the last line
findInsertionPoint(d, position) ==
  LET allChars == getAllCharacters(d)
      later == {i \in 1..Len(allChars) :
                  comparePositions(position, allChars[i].pos) < 0}
  IN IF later # {}
     THEN getLineAndCharIndex(d, (CHOOSE i \in later : \A j \in later : i <= j) - 1)
     ELSE IF Len(d) = 0 THEN <<0, 0>>
     ELSE <<Len(d) - 1, Len(d[Len(d)])>>

\* findCharacter: the first character, line by line, at the position
findCharacter(d, position) ==
  LET cells == UNION {{<<l, c>> : c \in 1..Len(d[l])} : l \in 1..Len(d)}
      hits == {lc \in cells :
                 comparePositions(position, d[lc[1]][lc[2]].pos) = 0}
  IN IF hits = {} THEN [found |-> FALSE, lineIndex |-> 0, charIndex |-> 0]
     ELSE LET first == CHOOSE h \in hits : \A g \in hits :
                          h[1] < g[1] \/ (h[1] = g[1] /\ h[2] <= g[2])
          IN [found |-> TRUE, lineIndex |-> first[1] - 1, charIndex |-> first[2] - 1]

\* seq with x inserted before 0-based index i;  seq without 0-based index i
InsertAt(seq, i, x) == SubSeq(seq, 1, i) \o <<x>> \o SubSeq(seq, i + 1, Len(seq))

RemoveAt(seq, i) == SubSeq(seq, 1, i) \o SubSeq(seq, i + 2, Len(seq))

\* variant: a newline is put into its line like any other character
InsertCharacterSameLine(d0, char, position, clock) ==
  LET d == IF Len(d0) = 0 THEN <<(<<>>)>> ELSE d0
      newChar == Character(position, clock, char)
      at == findInsertionPoint(d, position)
      lineIndex == at[1]
      charIndex == at[2]
      currentLine == d[lineIndex + 1]
  IN [d EXCEPT ![lineIndex + 1] = InsertAt(currentLine, charIndex, newChar)]

\* Document.InsertCharacter
InsertCharacter(d0, char, position, clock) ==
  LET d == IF Len(d0) = 0 THEN <<(<<>>)>> ELSE d0
      newChar == Character(position, clock, char)
      at == findInsertionPoint(d, position)
      lineIndex == at[1]
      charIndex == at[2]
      currentLine == d[lineIndex + 1]
  IN IF char = NL
     THEN LET newLine == SubSeq(currentLine, charIndex + 1, Len(currentLine))
              cut == SubSeq(currentLine, 1, charIndex) \o <<newChar>>
          IN SubSeq(d, 1, lineIndex) \o <<cut, newLine>>
               \o SubSeq(d, lineIndex + 2, Len(d))
     ELSE [d EXCEPT ![lineIndex + 1] = InsertAt(currentLine, charIndex, newChar)]

\* variant: the found flag is not looked at: a position the document does
\* not hold removes the character at line 0, index 0
DeleteCharacterUnchecked(d, position) ==
  LET f == findCharacter(d, position)
      li == f.lineIndex + 1
      line == d[li]
      char == line[f.charIndex + 1]
  IN IF Len(d) = 0 \/ Len(line) = 0 THEN [err |-> TRUE, doc |-> d]
     ELSE IF char.value = NL /\ f.lineIndex + 1 < Len(d)
          THEN [err |-> FALSE,
                doc |-> SubSeq(d, 1, li - 1)
                          \o <<RemoveAt(line, f.charIndex) \o d[li + 1]>>
                          \o SubSeq(d, li + 2, Len(d))]
     ELSE [err |-> FALSE, doc |-> [d EXCEPT ![li] = RemoveAt(line, f.charIndex)]]

\* Document.DeleteCharacter: err (character not found) or the new document
DeleteCharacter(d, position) ==
  LET f == findCharacter(d, position)
      li == f.lineIndex + 1
      line == d[li]
      char == line[f.charIndex + 1]
  IN IF ~f.found THEN [err |-> TRUE, doc |-> d]
     ELSE IF char.value = NL /\ f.lineIndex + 1 < Len(d)
          THEN [err |-> FALSE,
                doc |-> SubSeq(d, 1, li - 1)
                          \o <<RemoveAt(line, f.charIndex) \o d[li + 1]>>
                          \o SubSeq(d, li + 2, Len(d))]
     ELSE [err |-> FALSE, doc |-> [d EXCEPT ![li] = RemoveAt(line, f.charIndex)]]

\* ---------------------------------------------------------------------- text
\* A Go string is a sequence of bytes.  `for _, char := range s` decodes it
\* as UTF-8, one rune at a time, and yields RuneError (U+FFFD) for each
\* byte that starts no valid encoding; strings.Builder.WriteRune encodes a
\* rune as UTF-8.
RuneError == 65533

isCont(s, i) == i <= Len(s) /\ s[i] >= 128 /\ s[i] <= 191

\* utf8.DecodeRuneInString at byte i: <<rune, width>>
decodeRune(s, i) ==
  LET b == s[i]
  IN IF b < 128 THEN <<b, 1>>
     ELSE IF b >= 194 /\ b <= 223 /\ isCont(s, i + 1)
          THEN <<(b - 192) * 64 + (s[i + 1] - 128), 2>>
     ELSE IF /\ b >= 224 /\ b <= 239 /\ isCont(s, i + 1) /\ isCont(s, i + 2)
             /\ (b = 224 => s[i + 1] >= 160)
             /\ (b = 237 => s[i + 1] <= 159)
          THEN <<(b - 224) * 4096 + (s[i + 1] - 128) * 64 + (s[i + 2] - 128), 3>>
     ELSE IF /\ b >= 240 /\ b <= 244
             /\ isCont(s, i + 1) /\ isCont(s, i + 2) /\ isCont(s, i + 3)
             /\ (b = 240 => s[i + 1] >= 144)
             /\ (b = 244 => s[i + 1] <= 143)
          THEN <<(b - 240) * 262144 + (s[i + 1] - 128) * 4096
                   + (s[i + 2] - 128) * 64 + (s[i + 3] - 128), 4>>
     ELSE <<RuneError, 1>>

\* the runes of a string, as `range` yields them
RECURSIVE runesFrom(_, _)
runesFrom(s, i) ==
  IF i > Len(s) THEN <<>>
  ELSE LET r == decodeRune(s, i) IN <<r[1]>> \o runesFrom(s, i + r[2])

\* the runes of a string (for _, r := range s).  A byte that is not a
\* continuation byte starts a rune whatever precedes it, so the loop over a
\* string is the loop over the part before such a byte followed by the loop
\* over the rest; the cut nearest to the middle keeps the evaluation shallow
RECURSIVE Runes(_)
Runes(s) ==
  LET cuts == {i \in 2..Len(s) : ~isCont(s, i)}
      off(i) == IF 2 * i >= Len(s) THEN 2 * i - Len(s) ELSE Len(s) - 2 * i
  IN IF cuts = {} THEN runesFrom(s, 1)
     ELSE LET m == CHOOSE i \in cuts : \A j \in cuts : off(i) <= off(j)
          IN Runes(SubSeq(s, 1, m - 1)) \o Runes(SubSeq(s, m, Len(s)))

\* utf8.AppendRune: the bytes of a rune
RECURSIVE encodeRune(_)
encodeRune(r) ==
  IF r < 0 \/ r > 1114111 \/ (r >= 55296 /\ r <= 57343) THEN encodeRune(RuneError)
  ELSE IF r < 128 THEN <<r>>
  ELSE IF r < 2048 THEN <<192 + (r \div 64), 128 + (r % 64)>>
  ELSE IF r < 65536
       THEN <<224 + (r \div 4096), 128 + ((r \div 64) % 64), 128 + (r % 64)>>
  ELSE <<240 + (r \div 262144), 128 + ((r \div 4096) % 64),
         128 + ((r \div 64) % 64), 128 + (r % 64)>>

\* strings.Split(text, "\n"): the pieces between the newline bytes
RECURSIVE splitFrom(_, _, _)
splitFrom(text, i, piece) ==
  IF i > Len(text) THEN <<piece>>
  ELSE IF text[i] = NL THEN <<piece>> \o splitFrom(text, i + 1, <<>>)
  ELSE splitFrom(text, i + 1, Append(piece, text[i]))

\* a long text is split by halves: the last piece of the first half goes on
\* in the first piece of the second
RECURSIVE Split(_)
Split(text) ==
  IF Len(text) <= 1 THEN splitFrom(text, 1, <<>>)
  ELSE LET half == Len(text) \div 2
           left == Split(SubSeq(text, 1, half))
           right == Split(SubSeq(text, half + 1, Len(text)))
       IN SubSeq(left, 1, Len(left) - 1)
            \o <<left[Len(left)] \o right[1]>> \o Tail(right)

\* the characters of one line of FromText, the clock starting at clock0
lineChars(runes, clock0, nodeID, withNewline) ==
  [k \in 1..(Len(runes) + (IF withNewline THEN 1 ELSE 0)) |->
     Character(<<Identifier(clock0 + k - 1, nodeID)>>, clock0 + k - 1,
               IF k <= Len(runes) THEN runes[k] ELSE NL)]

RECURSIVE fromLines(_, _, _, _)
fromLines(lines, lineIndex, clock, nodeID) ==
  IF lineIndex > Len(lines) THEN <<>>
  ELSE LET chars == lineChars(Runes(lines[lineIndex]), clock, nodeID,
                              lineIndex < Len(lines))
       IN <<chars>> \o fromLines(lines, lineIndex + 1, clock + Len(chars), nodeID)

\* variant: the empty text gives a document without lines
FromTextWithoutLines(text, nodeID) ==
  IF text = <<>> THEN <<>> ELSE fromLines(Split(text), 1, 1, nodeID)

\* FromText(text, nodeID)
FromText(text, nodeID) ==
  IF text = <<>> THEN <<(<<>>)>> ELSE fromLines(Split(text), 1, 1, nodeID)

\* the bytes ToText writes for one line: every rune but the newlines
RECURSIVE lineText(_)
lineText(line) ==
  IF line = <<>> THEN <<>>
  ELSE IF Len(line) = 1
       THEN (IF line[1].value # NL THEN encodeRune(line[1].value) ELSE <<>>)
  ELSE LET half == Len(line) \div 2
       IN lineText(SubSeq(line, 1, half))
            \o lineText(SubSeq(line, half + 1, Len(line)))

\* Document.ToText: the lines' text, a newline between successive lines
RECURSIVE textFrom(_, _)
textFrom(d, lineIndex) ==
  IF lineIndex > Len(d) THEN <<>>
  ELSE lineText(d[lineIndex]) \o (IF lineIndex < Len(d) THEN <<NL>> ELSE <<>>)
         \o textFrom(d, lineIndex + 1)

\* variant: a newline after every line, the last one too
ToTextNewlineAfterEveryLine(d) ==
  IF d = <<>> THEN <<>> ELSE textFrom(d, 1) \o <<NL>>

ToText(d) == textFrom(d, 1)

\* Document.GeneratePositionAt(textLine, textColumn, nodeID)
RECURSIVE lenBefore(_, _)
lenBefore(d, n) == IF n = 0 THEN 0 ELSE lenBefore(d, n - 1) + Len(d[n])

charIndexAt(d, textLine, textColumn) ==
  lenBefore(d, min(max(textLine - 1, 0), Len(d)))
    + (IF textLine - 1 < Len(d)
       THEN min(textColumn - 1, Len(d[textLine])) ELSE 0)

GeneratePositionAt(d, textLine, textColumn, nodeID) ==
  IF Len(d) = 0 THEN Ok(<<Identifier(1, nodeID)>>)
  ELSE LET charIndex == charIndexAt(d, textLine, textColumn)
           allChars == getAllCharacters(d)
       IN IF Len(allChars) = 0 THEN Ok(<<Identifier(1, nodeID)>>)
          ELSE IF charIndex = 0
               THEN generatePositionBetween(<<>>, allChars[1].pos, nodeID)
          ELSE IF charIndex >= Len(allChars)
               THEN generatePositionBetween(allChars[Len(allChars)].pos, <<>>, nodeID)
          ELSE IF charIndex < 0 THEN Panic("index out of range")
          ELSE generatePositionBetween(allChars[charIndex].pos,
                                       allChars[charIndex + 1].pos, nodeID)

\* Document.FindPositionAt: the position of the character at (line, column),
\* 1-based; the column after a line's last character answers that character's
\* position (the empty position on an empty line); err when out of range
FindPositionAt(d, textLine, textColumn) ==
  IF textLine < 1 \/ textLine > Len(d) THEN [err |-> TRUE, val |-> <<>>]
  ELSE LET line == d[textLine]
       IN IF textColumn < 1 \/ textColumn > Len(line) + 1
          THEN [err |-> TRUE, val |-> <<>>]
          ELSE IF textColumn <= Len(line)
               THEN [err |-> FALSE, val |-> line[textColumn].pos]
          ELSE IF Len(line) > 0
               THEN [err |-> FALSE, val |-> line[Len(line)].pos]
          ELSE [err |-> FALSE, val |-> <<>>]

\* ------------------------------------------------------------------- bounds
\* replicas' node ids (distinct per replica, totally ordered)
Nodes == {1, 2, 3}

\* digits the sampled positions are built from: the least ones, a gap, and
\* the greatest digit (where Add carries)
DigitSample == {0, 1, 2, BASE - 1}

\* longest sampled position
MaxPosLen == 2

RECURSIVE SeqsUpTo(_, _)
SeqsUpTo(S, n) ==
  IF n = 0 THEN {<<>>}
  ELSE LET shorter == SeqsUpTo(S, n - 1)
       IN shorter \cup {Append(q, x) : q \in {r \in shorter : Len(r) = n - 1}, x \in S}

\* Positions replicas hold: non-empty, and the last digit is not 0 (FromText
\* counts from 1, Increment steps past a trailing 0)
Positions ==
  {p \in SeqsUpTo({Identifier(d, n) : d \in DigitSample, n \in Nodes}, MaxPosLen) :
     Len(p) > 0 /\ p[Len(p)].digit # 0}

NotRun == [panic |-> FALSE, why |-> "not run", val |-> <<>>]

Less(p, q) == comparePositions(p, q) < 0

\* ------------------------------------------------------------ idle parts
\* Each specification below drives one part of the state and leaves the
\* other parts at these values.
\* "not computed yet": a document, and a text, that no computation produces
NoDoc == <<(<<[pos |-> <<>>, clock |-> -1, value |-> -1]>>)>>

NoText == <<-1>>

AllocIdle ==
  allocLo = <<>> /\ allocHi = <<>> /\ allocNode = 0 /\ generated = NotRun

TextIdle == srcText = <<>> /\ textNode = 0 /\ textDoc = NoDoc /\ textOut = NoText

DocIdle == hdoc = NoDoc /\ hprev = NoDoc /\ hist = <<>>

ConvIdle == opset = {} /\ applied = <<>> /\ rdoc = <<>>

GuiIdle == gdoc = NoDoc /\ lastText = NoText /\ gclock = 0 /\ gpanic = FALSE

SysIdle ==
  /\ document = <<>> /\ tui = <<>> /\ mclock = <<>> /\ conns = <<>>
  /\ accepted = {}
  /\ crashed = <<>> /\ net = <<>> /\ edits = 0 /\ lastStep = <<>>
  /\ oplog = <<>> /\ bare = <<>>

\* every part but the named one is idle
LineIdle ==
  /\ subject = NoDoc /\ atLine = 0 /\ atCol = 0 /\ atNode = 0
  /\ located = NotRun /\ coords = <<>> /\ whole = NoDoc /\ merged = NotRun

SelIdle ==
  /\ selDoc = NoDoc /\ selFrom = <<>> /\ selTo = <<>>
  /\ picked = NoText /\ pickedBack = NoText

TagIdle == held = {} /\ tagged = <<>>

Unlocked == [writer |-> "", readers |-> {}]

LockIdle == pc = <<>> /\ mutex = Unlocked /\ edoc = 0 /\ mdoc = 0 /\ told = <<>>

OrderIdle ==
  sdoc = NoDoc /\ sclock = 0 /\ issued = <<>> /\ progress = <<>> /\ wire = <<>>

IdleBut(part) ==
  /\ IF part = "alloc" THEN TRUE ELSE AllocIdle
  /\ IF part = "text" THEN TRUE ELSE TextIdle
  /\ IF part = "doc" THEN TRUE ELSE DocIdle
  /\ IF part = "conv" THEN TRUE ELSE ConvIdle
  /\ IF part = "gui" THEN TRUE ELSE GuiIdle
  /\ IF part = "sys" THEN TRUE ELSE SysIdle
  /\ IF part = "line" THEN TRUE ELSE LineIdle
  /\ IF part = "sel" THEN TRUE ELSE SelIdle
  /\ IF part = "tag" THEN TRUE ELSE TagIdle
  /\ IF part = "lock" THEN TRUE ELSE LockIdle
  /\ IF part = "order" THEN TRUE ELSE OrderIdle

\* ------------------------------------------------- allocation of a position
\* The arguments are two neighbours in order, or a virtual endpoint (empty).
AllocStart ==
  /\ allocLo \in Positions \cup {<<>>}
  /\ allocHi \in Positions \cup {<<>>}
  /\ allocLo # <<>> /\ allocHi # <<>> => Less(allocLo, allocHi)
  /\ allocNode \in Nodes
  /\ generated = NotRun

Allocate ==
  /\ generated = NotRun
  /\ generated' = generatePositionBetween(allocLo, allocHi, allocNode)
  /\ UNCHANGED <<allocLo, allocHi, allocNode, exceptAlloc>>

AllocInit == AllocStart /\ IdleBut("alloc")

SpecAlloc == AllocInit /\ [][Allocate]_vars

\* C2  Density: a position allocated between two neighbours p_lo < p_hi is
\* produced (no panic) and lies strictly between them.
Density ==
  (generated # NotRun /\ allocLo # <<>> /\ allocHi # <<>>)
    => /\ ~generated.panic
       /\ Less(allocLo, generated.val)
       /\ Less(generated.val, allocHi)

\* C3  Virtual endpoints: allocation before a position (empty low neighbour)
\* gives a smaller position, allocation after a position (empty high
\* neighbour) a greater one.
VirtualEndpoints ==
  /\ (generated # NotRun /\ allocLo = <<>> /\ allocHi # <<>>)
       => (~generated.panic /\ Less(generated.val, allocHi))
  /\ (generated # NotRun /\ allocLo # <<>> /\ allocHi = <<>>)
       => (~generated.panic /\ Less(allocLo, generated.val))

\* ------------------------------------------------------------ text round trip
\* runes the sampled texts are made of: an ASCII letter, the newline, a
\* two-byte rune and a three-byte one (U+FFFD itself)
RuneSample == {97, NL, 233, RuneError}

\* longest sampled text, in runes
MaxTextLen == 4

RECURSIVE encodeRunes(_)
encodeRunes(runes) ==
  IF runes = <<>> THEN <<>> ELSE encodeRune(Head(runes)) \o encodeRunes(Tail(runes))

\* a text of BASE letters: the shortest text whose last character gets a
\* clock value of BASE
LongText == [i \in 1..BASE |-> 97]

TextStart ==
  /\ \/ \E runes \in SeqsUpTo(RuneSample, MaxTextLen) : srcText = encodeRunes(runes)
     \/ srcText = LongText
  /\ textNode \in Nodes
  /\ textDoc = NoDoc
  /\ textOut = NoText

Build ==
  /\ textDoc = NoDoc
  /\ textDoc' = FromText(srcText, textNode)
  /\ UNCHANGED <<srcText, textNode, textOut, exceptText>>

Render ==
  /\ textDoc # NoDoc /\ textOut = NoText
  /\ textOut' = ToText(textDoc)
  /\ UNCHANGED <<srcText, textNode, textDoc, exceptText>>

TextInit == TextStart /\ IdleBut("text")

TextNext == Build \/ Render

SpecText == TextInit /\ [][TextNext]_vars

\* C4  Round trip: the text rendered from the document built from a text s
\* (a sequence of Unicode scalars, encoded as UTF-8) is s.
RoundTrip == textOut # NoText => textOut = srcText

\* a text with a multi-byte rune and consecutive newlines, ending in a
\* newline, has made the round trip
RoundTripWitness == textOut # NoText /\ srcText = <<195, 169, NL, NL>>

\* --------------------------------------------------- operations on documents
\* messages.Operation: an Insert or a Delete keyed by a position
InsertOp(position, character, userID, clock) ==
  [type |-> "insert", position |-> position, character |-> character,
   user_id |-> userID, clock |-> clock]

DeleteOp(position, userID, clock) ==
  [type |-> "delete", position |-> position, character |-> 0,
   user_id |-> userID, clock |-> clock]

\* what a replica does with an operation (EditorState.handleMessage,
\* applyOperation): the document's answer, err set when a Delete finds nothing
applyOperation(d, op) ==
  IF op.type = "insert"
  THEN [err |-> FALSE,
        doc |-> InsertCharacter(d, op.character, op.position, op.clock)]
  ELSE DeleteCharacter(d, op.position)

Holds(d, position) == findCharacter(d, position).found

\* longest text an initial document is built from
MaxDocText == 2

\* characters typed into the sampled documents: a letter and the newline
Typed == {120, NL}

\* documents a replica starts from: FromText of a short text, by node 1
InitialDocs ==
  {FromText(encodeRunes(t), 1) : t \in SeqsUpTo({97, NL}, MaxDocText)}

\* the cursor places of a document: every column of every line, and the
\* column after the line's last character
Places(d) == UNION {{<<l, c>> : c \in 1..(Len(d[l]) + 1)} : l \in 1..Len(d)}

\* positions the other replicas (nodes 2 and 3) allocate in a document
Allocated(d) ==
  {g.val : g \in {q \in {GeneratePositionAt(d, lc[1], lc[2], n) :
                           lc \in Places(d), n \in Nodes \ {1}} : ~q.panic}}

PositionsOf(d) == {c.pos : c \in {flatten(d)[i] : i \in 1..Len(flatten(d))}}

\* operations that arrive at a replica whose document was d: inserts at
\* positions allocated by the other replicas, and deletes of characters
FreshInserts(d) ==
  {InsertOp(pos, v, pos[Len(pos)].node, 9) : pos \in Allocated(d), v \in Typed}

Deletes(P) == {DeleteOp(pos, 2, 9) : pos \in P}

\* ------------------------------------------- one document, a sequence of calls
\* longest sequence of calls
MaxCalls == 3

\* the calls made on a document that started as d: inserts at allocated
\* positions, inserts (by the document's own node) at a position the document
\* holds already, and deletes
Calls(d) ==
  FreshInserts(d)
    \cup {InsertOp(pos, 120, 1, 9) : pos \in PositionsOf(d)}
    \cup Deletes(PositionsOf(d) \cup Allocated(d))

DocStart ==
  /\ hdoc \in InitialDocs
  /\ hprev = NoDoc
  /\ hist = <<>>

\* one call of InsertCharacter or DeleteCharacter
Call ==
  /\ Len(hist) < MaxCalls
  /\ \E op \in Calls(IF hist = <<>> THEN hdoc ELSE hist[1].start) :
       LET res == applyOperation(hdoc, op)
       IN /\ hdoc' = res.doc
          /\ hprev' = hdoc
          /\ hist' = Append(hist, [op |-> op, err |-> res.err,
                                   start |-> IF hist = <<>> THEN hdoc
                                             ELSE hist[1].start])
  /\ UNCHANGED exceptDoc

DocInit == DocStart /\ IdleBut("doc")

SpecDoc == DocInit /\ [][Call]_vars

lastCall == hist[Len(hist)]

\* C7  Delete idempotence: DeleteCharacter(p) on a document holding no
\* character at p returns the NotFound error and leaves the document as it
\* was; the second of two consecutive DeleteCharacter(p) calls does so.
DeleteIdempotent ==
  /\ (Len(hist) >= 1 /\ lastCall.op.type = "delete"
        /\ ~Holds(hprev, lastCall.op.position))
       => (lastCall.err /\ hdoc = hprev)
  /\ (Len(hist) >= 2 /\ lastCall.op.type = "delete"
        /\ hist[Len(hist) - 1].op = lastCall.op)
       => (lastCall.err /\ hdoc = hprev)

\* C9  Idempotent insert: a second application of the same Insert leaves the
\* document as the first application left it.
InsertIdempotent ==
  (Len(hist) >= 2 /\ lastCall.op.type = "insert"
     /\ hist[Len(hist) - 1].op = lastCall.op)
    => hdoc = hprev

\* ------------------------------- two replicas, one set of operations, any order
Replicas == {"A", "B"}

\* most operations in the set
MaxOps == 2

\* operations that may be in flight for a document that started as d
Arriving(d) == FreshInserts(d) \cup Deletes(PositionsOf(d) \cup Allocated(d))

\* operations the commutativity statement speaks of: inserts at new positions
\* and deletes of characters the document holds
OnHeld(d) == FreshInserts(d) \cup Deletes(PositionsOf(d))

Subsets(S, n) == {T \in SUBSET S : Cardinality(T) <= n}

ConvStart ==
  \E d \in InitialDocs :
    /\ opset \in Subsets(Arriving(d), MaxOps) \ {{}}
    /\ rdoc = [r \in Replicas |-> d]
    /\ applied = [r \in Replicas |-> <<>>]

CommStart ==
  \E d \in InitialDocs :
    /\ opset \in {T \in Subsets(OnHeld(d), 2) :
                     \E o1, o2 \in T : T = {o1, o2} /\ o1.position # o2.position}
    /\ rdoc = [r \in Replicas |-> d]
    /\ applied = [r \in Replicas |-> <<>>]

Seen(r) == {applied[r][i] : i \in 1..Len(applied[r])}

\* replica r applies an operation of the set it has not applied yet; the
\* error of a Delete that finds nothing is dropped
Deliver ==
  /\ \E r \in Replicas : \E op \in opset \ Seen(r) :
       /\ rdoc' = [rdoc EXCEPT ![r] = applyOperation(rdoc[r], op).doc]
       /\ applied' = [applied EXCEPT ![r] = Append(applied[r], op)]
  /\ UNCHANGED <<opset, exceptConv>>

ConvInit == ConvStart /\ IdleBut("conv")

SpecConv == ConvInit /\ [][Deliver]_vars

CommInit == CommStart /\ IdleBut("conv")

SpecComm == CommInit /\ [][Deliver]_vars

\* C1  Convergence: two replicas that have applied the same set of operations
\* hold documents whose text is equal.
Convergence ==
  \A r1, r2 \in Replicas :
    (Seen(r1) = opset /\ Seen(r2) = opset)
      => ToText(rdoc[r1]) = ToText(rdoc[r2])

\* C10  Commutativity: two operations on distinct positions, applied in either
\* order, leave the same document.
Commutativity ==
  \A r1, r2 \in Replicas :
    (Seen(r1) = opset /\ Seen(r2) = opset) => rdoc[r1] = rdoc[r2]

\* C10  a newline insert and a delete have been applied in opposite orders
CommutativityWitness ==
  /\ Len(applied["A"]) = 2 /\ Len(applied["B"]) = 2
  /\ applied["A"][1] = applied["B"][2]
  /\ applied["A"][2] = applied["B"][1]
  /\ applied["A"][1].type = "insert" /\ applied["A"][1].character = NL
  /\ applied["A"][2].type = "delete"

\* ------------------------------------------------- the GUI editor's text diff
\* EditorState.detectChanges: one pass over the old and the new runes; every
\* position is computed in the document as it is before any operation of the
\* pass is applied.  i, j count the runes consumed; the clock is nextClock's.
RECURSIVE diffFrom(_, _, _, _, _, _, _, _, _, _)
diffFrom(d, nodeID, oldRunes, newRunes, i, j, line, col, clk, operations) ==
  IF ~(i < Len(oldRunes) \/ j < Len(newRunes))
  THEN [panic |-> FALSE, operations |-> operations, clock |-> clk]
  ELSE IF i < Len(oldRunes) /\ j < Len(newRunes) /\ oldRunes[i + 1] = newRunes[j + 1]
  THEN IF oldRunes[i + 1] = NL
       THEN diffFrom(d, nodeID, oldRunes, newRunes, i + 1, j + 1, line + 1, 1,
                     clk, operations)
       ELSE diffFrom(d, nodeID, oldRunes, newRunes, i + 1, j + 1, line, col + 1,
                     clk, operations)
  ELSE IF j < Len(newRunes)
  THEN LET g == GeneratePositionAt(d, line, col, nodeID)
           op == InsertOp(g.val, newRunes[j + 1], nodeID, clk + 1)
       IN IF g.panic
          THEN [panic |-> TRUE, operations |-> operations, clock |-> clk]
          ELSE IF newRunes[j + 1] = NL
          THEN diffFrom(d, nodeID, oldRunes, newRunes, i, j + 1, line + 1, 1,
                        clk + 1, Append(operations, op))
          ELSE diffFrom(d, nodeID, oldRunes, newRunes, i, j + 1, line, col + 1,
                        clk + 1, Append(operations, op))
  ELSE LET f == FindPositionAt(d, line, col)
       IN IF f.err
          THEN diffFrom(d, nodeID, oldRunes, newRunes, i + 1, j, line, col,
                        clk, operations)
          ELSE diffFrom(d, nodeID, oldRunes, newRunes, i + 1, j, line, col,
                        clk + 1, Append(operations, DeleteOp(f.val, nodeID, clk + 1)))

detectChanges(d, nodeID, clk, oldText, newText) ==
  diffFrom(d, nodeID, Runes(oldText), Runes(newText), 0, 0, 1, 1, clk, <<>>)

\* the loop of processTextChange: each operation is applied in turn; one that
\* fails is skipped
RECURSIVE applyAll(_, _)
applyAll(d, operations) ==
  IF operations = <<>> THEN d
  ELSE applyAll(applyOperation(d, Head(operations)).doc, Tail(operations))

\* runes typed or pasted into the entry widget
GuiRunes == {97, 98, NL}

\* longest text in the entry widget
MaxGuiText == 2

\* the clock value after which no more text changes are taken
MaxGuiClock == 4

GuiNode == 1

\* NewEditorState: an empty document, clock 1, last text ""
GuiStart ==
  /\ gdoc = FromText(<<>>, GuiNode)
  /\ lastText = <<>>
  /\ gclock = 1
  /\ gpanic = FALSE

\* the entry widget reports a new text: EditorState.processTextChange
ProcessTextChange ==
  /\ ~gpanic
  /\ gclock < MaxGuiClock
  /\ \E t \in SeqsUpTo(GuiRunes, MaxGuiText) :
       LET newText == encodeRunes(t)
           found == detectChanges(gdoc, GuiNode, gclock, lastText, newText)
       IN IF found.panic
          THEN /\ gpanic' = TRUE
               /\ gclock' = found.clock
               /\ UNCHANGED <<gdoc, lastText>>
          ELSE /\ gdoc' = applyAll(gdoc, found.operations)
               /\ gclock' = found.clock
               /\ lastText' = newText
               /\ UNCHANGED gpanic
  /\ UNCHANGED exceptGui

GuiInit == GuiStart /\ IdleBut("gui")

SpecGui == GuiInit /\ [][ProcessTextChange]_vars

Distinct(d) ==
  LET all == flatten(d)
  IN \A a, b \in 1..Len(all) : a # b => all[a].pos # all[b].pos

\* C5  Position uniqueness: after any sequence of inserts, every character of
\* the document has a position no other character of the document has.
PositionUniqueness == Distinct(gdoc)

\* ------------------------------------------------------- the terminal editor
\* Peer 1 listens; every other peer was started with --join and has dialed
\* peer 1, registered the connection and sent Init before its TUI started.
\* The peers that run are the ones the state has a document for.
Peers == DOMAIN document

Pair == {1, 2}

Trio == {1, 2, 3}

Host == 1

\* texts the host loads with --file
HostTexts == {<<>>, <<97>>}

\* most key presses that edit, over all peers
MaxEdits == 2

NoOp == [type |-> "none", position |-> <<>>, character |-> 0,
         user_id |-> 0, clock |-> 0]

\* messages.Message, and the end of a closed connection's byte stream
OperationMessage(op) ==
  [type |-> "operation", operation |-> op, document |-> NoDoc,
   user_id |-> op.user_id, cursor |-> FALSE]

SyncMessage(d, userID) ==
  [type |-> "sync", operation |-> NoOp, document |-> d, user_id |-> userID,
   cursor |-> FALSE]

\* NewInitMessage sets no user id
InitMessage ==
  [type |-> "init", operation |-> NoOp, document |-> NoDoc, user_id |-> 0,
   cursor |-> FALSE]

EOF == [type |-> "eof", operation |-> NoOp, document |-> NoDoc, user_id |-> 0,
        cursor |-> FALSE]

LinksOf(P) == {pq \in P \X P : pq[1] # pq[2]}

Links == DOMAIN net

NoStep == [kind |-> "none", peer |-> 0, from |-> 0, before |-> NoDoc, had |-> {},
           op |-> NoOp, line |-> 0, col |-> 0,
           type |-> "", pending |-> <<>>, out |-> <<>>, clockBefore |-> 0,
           failed |-> {}]

\* the document the TUI of peer p edits: the EditorState's, or the one it
\* still holds after a Sync replaced the EditorState's
View(p) == IF tui[p] = <<>> THEN document[p] ELSE tui[p][1]

\* the peer at the other end of p's connection to q has closed it
Failing(p, q) == \E i \in 1..Len(net[<<q, p>>]) : net[<<q, p>>][i] = EOF

\* sent: <<op, q>> for an operation written to the connection to q;
\* handled: <<op, p>> for an operation handleMessage applied at p;
\* synced: the peers whose EditorState has taken a Sync;
\* late: the operations a peer made on the document it was synced to;
\* dropped: <<p, q>> for a connection to q that p has removed;
\* foreign: the number of frames put on a connection by another program
NoLog == [sent |-> {}, handled |-> {}, synced |-> {}, late |-> {},
          dropped |-> {}, foreign |-> 0]

StartWith(P, texts) ==
  /\ \E t \in texts :
       document = [p \in P |->
                     IF p = Host THEN FromText(encodeRunes(t), p)
                     ELSE FromText(<<>>, p)]
  /\ tui = [p \in P |-> <<>>]
  /\ mclock = [p \in P |-> 1]
  /\ conns = [p \in P |-> IF p = Host THEN {} ELSE {Host}]
  /\ accepted = {}
  /\ crashed = [p \in P |-> FALSE]
  /\ net = [pq \in LinksOf(P) |-> IF pq[2] = Host THEN <<InitMessage>> ELSE <<>>]
  /\ edits = 0
  /\ lastStep = NoStep
  /\ oplog = NoLog
  /\ bare = [p \in P |-> 0]

SysStart == StartWith(Pair, HostTexts)

\* the log after p has written op to each of its connections
Written(p, op) ==
  [oplog EXCEPT !.sent = @ \cup {<<op, q>> : q \in {r \in conns[p] : ~Failing(p, r)}},
                !.late = IF p \in oplog.synced /\ tui[p] = <<>>
                         THEN @ \cup {op} ELSE @]

\* SendOperation to every connection of p: what is written to a connection
\* the other end has closed reaches no one, and the error of the write, when
\* there is one, is dropped
Broadcast(p, op) ==
  [pq \in Links |->
     IF pq[1] = p /\ pq[2] \in conns[p] /\ ~Failing(p, pq[2])
     THEN Append(net[pq], OperationMessage(op)) ELSE net[pq]]

\* the TUI's document after an edit: the edit lands in the document the TUI holds
Edited(p, d) ==
  /\ document' = IF tui[p] = <<>> THEN [document EXCEPT ![p] = d] ELSE document
  /\ tui' = IF tui[p] = <<>> THEN tui ELSE [tui EXCEPT ![p] = <<d>>]

\* a panic ends the process: its connections close
Closed(p) ==
  [pq \in Links |-> IF pq[1] = p THEN Append(net[pq], EOF) ELSE net[pq]]

\* the host's accept loop: AddConn, then SendSync of the current document
Accept ==
  /\ ~crashed[Host]
  /\ \E q \in Peers \ ({Host} \cup accepted) :
       /\ accepted' = accepted \cup {q}
       /\ conns' = [conns EXCEPT ![Host] = @ \cup {q}]
       /\ net' = [net EXCEPT ![<<Host, q>>] =
                    Append(@, SyncMessage(document[Host], Host))]
       /\ lastStep' = [NoStep EXCEPT !.kind = "accept", !.peer = Host, !.from = q]
  /\ UNCHANGED <<document, tui, mclock, crashed, edits, oplog, bare, exceptSys>>

\* variant: a Sync with a document is taken whoever sent it
handleMessageAnySync(d, nodeID, msg) ==
  IF msg.type = "operation" /\ msg.operation # NoOp /\ msg.operation.user_id # nodeID
  THEN applyOperation(d, msg.operation).doc
  ELSE IF msg.type = "sync" /\ msg.document # NoDoc
       THEN msg.document
       ELSE d

\* EditorState.handleMessage: the document after the message
handleMessage(d, nodeID, msg) ==
  IF msg.type = "operation" /\ msg.operation # NoOp /\ msg.operation.user_id # nodeID
  THEN applyOperation(d, msg.operation).doc
  ELSE IF msg.type = "sync" /\ msg.document # NoDoc /\ msg.user_id # nodeID
       THEN msg.document
       ELSE d

\* variant: a message of a kind the editor state has no case for is a read
\* error as well
ReadErrorUnhandledKinds(msg) == msg.type \notin {"operation", "sync", "init"}

\* ReceiveMessage returns an error: the connection is closed, or the line
\* read is not the JSON of a message
ReadError(msg) == msg.type \in {"eof", "garbage"}

\* model.handleMessage reads msg.Cursor, msg.Selection and msg.Operation
\* without a nil check
Dereferenced(msg) ==
  \/ msg.type = "operation" /\ msg.operation = NoOp
  \/ msg.type \in {"cursor", "selection"} /\ ~msg.cursor

\* frames behind the first that may already lie in the socket's buffer
Buffered(frames) ==
  Cardinality({i \in 2..Len(frames) : frames[i] # EOF})

\* one turn of listenForMessages on p's connection to q.  ReceiveMessage
\* wraps the connection in a new buffered reader on every call: the reader
\* takes what the socket holds, yields the first frame, and is dropped
\* together with k further frames it had taken.  A read error ends the
\* loop: removeConnection closes the connection and takes it out of the set.
\* Every message read goes to handleMessage and then to the listeners.
Receive ==
  \E p \in Peers : \E q \in conns[p] :
    LET frames == net[<<q, p>>]
        msg == Head(frames)
    IN /\ ~crashed[p]
       /\ frames # <<>>
       /\ lastStep' = [NoStep EXCEPT !.kind = "receive", !.peer = p, !.from = q,
                                      !.before = document[p], !.had = conns[p],
                                      !.op = msg.operation, !.type = msg.type,
                                      !.pending = frames, !.out = net[<<p, q>>],
                                      !.clockBefore = mclock[p]]
       /\ IF ReadError(msg)
          THEN /\ conns' = [conns EXCEPT ![p] = @ \ {q}]
               /\ net' = [net EXCEPT ![<<q, p>>] = Tail(frames),
                                     ![<<p, q>>] = Append(@, EOF)]
               /\ oplog' = [oplog EXCEPT !.dropped = @ \cup {<<p, q>>}]
               /\ UNCHANGED <<document, tui, bare>>
          ELSE /\ \E k \in 0..Buffered(frames) :
                    net' = [net EXCEPT ![<<q, p>>] = SubSeq(frames, k + 2, Len(frames))]
               /\ document' = [document EXCEPT ![p] = handleMessage(@, p, msg)]
               /\ tui' = IF /\ msg.type = "sync" /\ msg.document # NoDoc
                            /\ msg.user_id # p /\ tui[p] = <<>>
                         THEN [tui EXCEPT ![p] = <<document[p]>>]
                         ELSE tui
               /\ oplog' = IF /\ msg.type = "operation" /\ msg.operation # NoOp
                              /\ msg.operation.user_id # p
                           THEN [oplog EXCEPT !.handled = @ \cup {<<msg.operation, p>>}]
                           ELSE IF /\ msg.type = "sync" /\ msg.document # NoDoc
                                   /\ msg.user_id # p
                           THEN [oplog EXCEPT !.synced = @ \cup {p}]
                           ELSE oplog
               /\ bare' = IF Dereferenced(msg) THEN [bare EXCEPT ![p] = @ + 1] ELSE bare
               /\ UNCHANGED conns
       /\ UNCHANGED <<mclock, accepted, crashed, edits, exceptSys>>

\* the TUI handles the Sync its listener was told of: m.doc = msg.Document,
\* the document the EditorState holds
TuiSync ==
  /\ \E p \in Peers :
       /\ ~crashed[p]
       /\ tui[p] # <<>>
       /\ tui' = [tui EXCEPT ![p] = <<>>]
       /\ lastStep' = [NoStep EXCEPT !.kind = "tuisync", !.peer = p]
  /\ UNCHANGED <<document, mclock, conns, accepted, crashed, net, edits, oplog,
                 bare, exceptSys>>

\* a printable key or enter, with the cursor at (line, col)
KeyInsert ==
  /\ edits < MaxEdits
  /\ \E p \in Peers : \E lc \in Places(View(p)) : \E v \in Typed :
       LET d == View(p)
           g == GeneratePositionAt(d, lc[1], lc[2], p)
           op == InsertOp(g.val, v, p, mclock[p] + 1)
       IN /\ ~crashed[p]
          /\ \E F \in SUBSET {q \in conns[p] : Failing(p, q)} :
               lastStep' = [NoStep EXCEPT !.kind = "insert", !.peer = p, !.before = d,
                                          !.had = conns[p], !.op = op,
                                          !.line = lc[1], !.col = lc[2],
                                          !.clockBefore = mclock[p],
                                          !.failed = IF g.panic THEN {} ELSE F]
          /\ IF g.panic
             THEN /\ crashed' = [crashed EXCEPT ![p] = TRUE]
                  /\ net' = Closed(p)
                  /\ UNCHANGED <<document, tui, mclock, oplog>>
             ELSE /\ mclock' = [mclock EXCEPT ![p] = @ + 1]
                  /\ Edited(p, InsertCharacter(d, v, g.val, mclock[p] + 1))
                  /\ net' = Broadcast(p, op)
                  /\ oplog' = Written(p, op)
                  /\ UNCHANGED crashed
  /\ edits' = edits + 1
  /\ UNCHANGED <<conns, accepted, bare, exceptSys>>

\* backspace with the cursor at (cursorY, cursorX): the character before the
\* cursor, or at a line's start the newline that ends the line above
KeyBackspace ==
  /\ edits < MaxEdits
  /\ \E p \in Peers : \E lc \in Places(View(p)) :
       LET d == View(p)
           cursorY == lc[1]
           cursorX == lc[2]
           f == IF cursorX > 1 THEN FindPositionAt(d, cursorY, cursorX - 1)
                ELSE FindPositionAt(d, cursorY - 1, Len(d[cursorY - 1]) + 1)
           op == DeleteOp(f.val, p, mclock[p])
       IN /\ ~crashed[p]
          /\ cursorX > 1 \/ cursorY > 1
          /\ ~f.err
          /\ Edited(p, DeleteCharacter(d, f.val).doc)
          /\ net' = Broadcast(p, op)
          /\ oplog' = Written(p, op)
          /\ \E F \in SUBSET {q \in conns[p] : Failing(p, q)} :
               lastStep' = [NoStep EXCEPT !.kind = "backspace", !.peer = p,
                                          !.before = d, !.had = conns[p], !.op = op,
                                          !.line = cursorY, !.col = cursorX,
                                          !.clockBefore = mclock[p], !.failed = F]
  /\ edits' = edits + 1
  /\ UNCHANGED <<mclock, conns, accepted, crashed, bare, exceptSys>>

\* ctrl+c or ctrl+q: the TUI returns, main returns, the process ends
Quit ==
  /\ \E p \in Peers :
       /\ ~crashed[p]
       /\ crashed' = [crashed EXCEPT ![p] = TRUE]
       /\ net' = Closed(p)
       /\ lastStep' = [NoStep EXCEPT !.kind = "quit", !.peer = p]
  /\ UNCHANGED <<document, tui, mclock, conns, accepted, edits, oplog, bare, exceptSys>>

Init == SysStart /\ IdleBut("sys")

Next == Accept \/ Receive \/ TuiSync \/ KeyInsert \/ KeyBackspace

Spec == Init /\ [][Next]_vars

\* C6  Local insert lands where asked: after GeneratePositionAt(line, col,
\* node) and InsertCharacter of v at the position, the text is the previous
\* text with v inserted at the flattened index of (line, col).
LocalInsertLands ==
  lastStep.kind = "insert"
    => /\ ~crashed[lastStep.peer]
       /\ ToText(View(lastStep.peer)) =
            encodeRunes(InsertAt(Runes(ToText(lastStep.before)),
                                 charIndexAt(lastStep.before, lastStep.line, lastStep.col),
                                 lastStep.op.character))

MissedDelete ==
  /\ lastStep.kind = "receive"
  /\ lastStep.op.type = "delete"
  /\ lastStep.op.user_id # lastStep.peer
  /\ ~Holds(lastStep.before, lastStep.op.position)

\* C8  Idempotent remote delete: a replica that receives a remote Delete for
\* a position its document does not hold keeps its document and its
\* connections as they were, the connection the Delete came on included, and
\* goes on receiving.
IdempotentRemoteDelete ==
  MissedDelete
    => /\ document[lastStep.peer] = lastStep.before
       /\ conns[lastStep.peer] = lastStep.had
       /\ lastStep.from \in conns[lastStep.peer]
       /\ ~crashed[lastStep.peer]

\* C8  a peer whose document holds a character has received a remote Delete
\* for a position the document does not hold
IdempotentRemoteDeleteWitness ==
  MissedDelete /\ flatten(lastStep.before) # <<>>

\* nothing is in flight between running peers and every TUI has taken the
\* Sync its listener was told of
Quiet ==
  /\ \A pq \in Links : crashed[pq[2]] \/ net[pq] = <<>>
  /\ \A p \in Peers : tui[p] = <<>>

\* C11  Late join: after the host has registered the joiner's connection and
\* sent its Sync, once nothing is in flight and no peer has stopped, the
\* joiner's text equals the host's, whatever edits were interleaved.
LateJoin ==
  (Quiet /\ accepted = Peers \ {Host} /\ \A p \in Peers : ~crashed[p])
    => \A p \in Peers : ToText(document[p]) = ToText(document[Host])

\* C12  Framing: a Receive takes exactly one frame from the connection; the
\* frames behind it stay for the next Receive calls, in order.
Framing ==
  (lastStep.kind = "receive" /\ lastStep.type # "eof")
    => net[<<lastStep.from, lastStep.peer>>] = Tail(lastStep.pending)

\* both ends have the connection registered
Open(p, q) == q \in conns[p] /\ p \in conns[q]

\* C13  Propagation: while the connection between two replicas is open, every
\* operation one of them made and wrote to it is applied by the other, so
\* that once nothing is in flight the two texts are equal.
Propagation ==
  \A p, q \in Peers :
    (p # q /\ Quiet /\ Open(p, q) /\ ~crashed[p] /\ ~crashed[q])
      => /\ \A e \in oplog.sent :
              (e[1].user_id = p /\ e[2] = q) => e \in oplog.handled
         /\ ToText(document[p]) = ToText(document[q])

\* Three peers: A = 1 listens, B = 2 and C = 3 have each dialed A.
ThreeStart == StartWith(Trio, {<<>>})

InitThree == ThreeStart /\ IdleBut("sys")

SpecThree == InitThree /\ [][Next]_vars

Removed(position) ==
  \E e \in oplog.sent : e[1].type = "delete" /\ e[1].position = position

\* C14  Late joiner's edits reach everyone: a character a joiner inserted
\* after it applied the host's Sync (and nobody deleted) is, once nothing is
\* in flight and every peer is connected and running, in the document of
\* every peer.
LateJoinerReachesAll ==
  (Quiet /\ accepted = Peers \ {Host} /\ \A p \in Peers : ~crashed[p])
    => \A op \in oplog.late :
         (op.type = "insert" /\ ~Removed(op.position))
           => \A p \in Peers : Holds(document[p], op.position)

\* the last step applied an operation at lastStep.peer: a key press that
\* edited, or a remote operation taken by handleMessage
AppliedOperation ==
  \/ lastStep.kind = "insert" /\ ~crashed[lastStep.peer]
  \/ lastStep.kind = "backspace"
  \/ /\ lastStep.kind = "receive" /\ lastStep.type = "operation"
     /\ lastStep.op.user_id # lastStep.peer

\* C15  Monotone clock: after a replica applies an operation, local or
\* remote, its clock is at least max(its clock before, the operation's clock).
MonotoneClock ==
  AppliedOperation
    => mclock[lastStep.peer] >= max(lastStep.clockBefore, lastStep.op.clock)

\* C16  Init handshake: a replica that receives an Init on a connection
\* replies on that connection with a Sync carrying its current document.
InitHandshake ==
  (lastStep.kind = "receive" /\ lastStep.type = "init")
    => net[<<lastStep.peer, lastStep.from>>] =
         Append(lastStep.out, SyncMessage(document[lastStep.peer], lastStep.peer))

\* the editor with users who leave
NextLeave == Accept \/ Receive \/ TuiSync \/ KeyInsert \/ KeyBackspace \/ Quit
SpecLeave == Init /\ [][NextLeave]_vars

\* C17 Disconnect: a connection on which a write or a read has failed is out
\* of the peer's connection set after that step, the operation of a
\* broadcast with a failed write is still written to the other connections
\* of the snapshot, and a connection a peer has removed is never in its set
\* again.
Disconnect ==
  /\ (lastStep.kind \in {"insert", "backspace"} /\ ~crashed[lastStep.peer])
       => /\ lastStep.failed \cap conns[lastStep.peer] = {}
          /\ \A q \in lastStep.had \ lastStep.failed :
                Failing(lastStep.peer, q) \/ <<lastStep.op, q>> \in oplog.sent
  /\ (lastStep.kind = "receive" /\ ReadError([type |-> lastStep.type]))
       => lastStep.from \notin conns[lastStep.peer]
  /\ \A e \in oplog.dropped : e[2] \notin conns[e[1]]

\* frames a decoder of the protocol can be handed by the other end of a
\* connection: a line that is no JSON, a message of a kind the program does
\* not know, messages of a known kind whose payload object is missing,
\* Syncs with a document under either peer's node id (--node is any number
\* the user gives), Cursor and Selection messages with their payload, Ack
\* and Error messages
Frame(kind) ==
  [type |-> kind, operation |-> NoOp, document |-> NoDoc, user_id |-> 0,
   cursor |-> FALSE]
ForeignFrames ==
  {Frame(kind) : kind \in {"garbage", "unknown", "operation", "cursor",
                           "selection", "sync"}}
    \cup {SyncMessage(FromText(<<98>>, u), u) : u \in Pair}
    \cup {[Frame(kind) EXCEPT !.cursor = TRUE] : kind \in {"cursor", "selection"}}
    \cup {Frame(kind) : kind \in {"ack", "error"}}
MaxForeign == 2

\* the process at the other end of one of p's connections writes such a frame
Foreign ==
  /\ oplog.foreign < MaxForeign
  /\ \E p \in Peers : \E q \in conns[p] : \E frame \in ForeignFrames :
       /\ ~crashed[p]
       /\ ~Failing(p, q)
       /\ net' = [net EXCEPT ![<<q, p>>] = Append(@, frame)]
       /\ oplog' = [oplog EXCEPT !.foreign = @ + 1]
       /\ lastStep' = [NoStep EXCEPT !.kind = "foreign", !.peer = p, !.from = q,
                                      !.type = frame.type]
  /\ UNCHANGED <<document, tui, mclock, conns, accepted, crashed, edits, bare,
                 exceptSys>>

\* the TUI's Update takes the networkMessageUpdate of a message without
\* payload: model.handleMessage reads a field of the nil payload, the panic
\* ends the TUI and with it the process
Notified ==
  /\ \E p \in Peers :
       /\ ~crashed[p]
       /\ bare[p] > 0
       /\ bare' = [bare EXCEPT ![p] = @ - 1]
       /\ crashed' = [crashed EXCEPT ![p] = TRUE]
       /\ net' = Closed(p)
       /\ lastStep' = [NoStep EXCEPT !.kind = "notified", !.peer = p]
  /\ UNCHANGED <<document, tui, mclock, conns, accepted, edits, oplog, exceptSys>>

NextFrames == Accept \/ Receive \/ TuiSync \/ Foreign \/ Notified
SpecFrames == Init /\ [][NextFrames]_vars

\* C18 No remote crash: a peer that has read a frame from a connection, or
\* whose TUI has handled the message read, is still running after that step.
NoRemoteCrash ==
  lastStep.kind \in {"receive", "notified"} => ~crashed[lastStep.peer]

\* ------------------------------------------- text coordinates and positions
\* cursor.Manager.GetTextCoordsFromCRDTPosition on the manager's document d:
\* (1, 1) for the empty position, else the line and column of the first
\* character at the position, else the place after the document's end
holders(d, position) ==
  UNION {{<<l, c>> : c \in {i \in 1..Len(d[l]) : d[l][i].pos = position}} :
           l \in 1..Len(d)}
GetTextCoordsFromCRDTPosition(d, position) ==
  IF Len(position) = 0 THEN <<1, 1>>
  ELSE LET at == holders(d, position)
       IN IF at # {}
          THEN CHOOSE lc \in at :
                 \A other \in at :
                   lc[1] < other[1] \/ (lc[1] = other[1] /\ lc[2] <= other[2])
          ELSE IF Len(d) = 0 THEN <<1, 1>>
          ELSE <<Len(d), Len(d[Len(d)]) + 1>>

\* longest text of the documents the coordinates are taken in
MaxLineText == 3

\* documents built from a short text by node 1
LineDocs == {FromText(encodeRunes(t), 1) : t \in SeqsUpTo({97, NL}, MaxLineText)}

\* a document and a coordinate FindPositionAt accepts
CoordStart ==
  /\ subject \in LineDocs
  /\ atLine \in 1..Len(subject)
  /\ atCol \in 1..(Len(subject[atLine]) + 1)
  /\ atNode = 1
  /\ located = NotRun /\ coords = <<>> /\ whole = NoDoc /\ merged = NotRun

Find ==
  /\ located = NotRun
  /\ LET f == FindPositionAt(subject, atLine, atCol)
     IN /\ ~f.err
        /\ located' = Ok(f.val)
  /\ UNCHANGED <<subject, atLine, atCol, atNode, coords, whole, merged, exceptLine>>

ToCoords ==
  /\ located # NotRun /\ coords = <<>>
  /\ coords' = GetTextCoordsFromCRDTPosition(subject, located.val)
  /\ UNCHANGED <<subject, atLine, atCol, atNode, located, whole, merged, exceptLine>>

CoordInit == CoordStart /\ IdleBut("line")
CoordNext == Find \/ ToCoords
SpecCoords == CoordInit /\ [][CoordNext]_vars

\* C19 Coordinate round trip: the coordinate answered for the position that
\* FindPositionAt answers for an accepted (line, column) is (line, column).
CoordinateRoundTrip == coords # <<>> => coords = <<atLine, atCol>>

\* ------------------------------------------------ a newline put in and taken out
\* the clock the newline is stamped with
SplitClock == 10

\* the documents a newline is put into: built from a text, and those with
\* one character more that another replica inserted
SplitDocs ==
  LineDocs \cup UNION {{applyOperation(d, op).doc : op \in FreshInserts(d)} : d \in LineDocs}

\* a document, a cursor place in it and the node that asks
SplitStart ==
  /\ subject \in SplitDocs
  /\ \E lc \in Places(subject) : atLine = lc[1] /\ atCol = lc[2]
  /\ atNode \in Nodes
  /\ located = NotRun /\ coords = <<>> /\ whole = NoDoc /\ merged = NotRun

Generate ==
  /\ located = NotRun
  /\ located' = GeneratePositionAt(subject, atLine, atCol, atNode)
  /\ UNCHANGED <<subject, atLine, atCol, atNode, coords, whole, merged, exceptLine>>

InsertNewline ==
  /\ located # NotRun /\ ~located.panic /\ whole = NoDoc
  /\ whole' = subject
  /\ subject' = InsertCharacter(subject, NL, located.val, SplitClock)
  /\ UNCHANGED <<atLine, atCol, atNode, located, coords, merged, exceptLine>>

DeleteNewline ==
  /\ whole # NoDoc /\ merged = NotRun
  /\ LET res == DeleteCharacter(subject, located.val)
     IN /\ subject' = res.doc
        /\ merged' = Ok(res.err)
  /\ UNCHANGED <<atLine, atCol, atNode, located, coords, whole, exceptLine>>

SplitInit == SplitStart /\ IdleBut("line")
SplitNext == Generate \/ InsertNewline \/ DeleteNewline
SpecSplit == SplitInit /\ [][SplitNext]_vars

\* the inserted newline
Newline == Character(located.val, SplitClock, NL)

\* the cursor stands within the text of its line: not behind the newline
\* that ends the line
Within ==
  atCol <= Len(whole[atLine]) + 1
             - (IF Len(whole[atLine]) > 0 /\ whole[atLine][Len(whole[atLine])].value = NL
                THEN 1 ELSE 0)

\* C20 Newline split and merge: after InsertCharacter of a newline at the
\* position generated for (line, col) the document has one line more, the
\* characters are the previous ones with the newline at the cursor's offset,
\* the line of the cursor is cut in two at the column with the newline last
\* in the first part, and the text is the previous text with a newline at
\* that offset; after DeleteCharacter of that newline the document is
\* exactly the previous one.
NewlineSplitMerge ==
  /\ (whole # NoDoc /\ merged = NotRun)
       => LET k == charIndexAt(whole, atLine, atCol)
              was == flatten(whole)
              text == ToText(whole)
          IN /\ Len(subject) = Len(whole) + 1
             /\ flatten(subject) = SubSeq(was, 1, k) \o <<Newline>>
                                     \o SubSeq(was, k + 1, Len(was))
             /\ ToText(subject) = SubSeq(text, 1, k) \o <<NL>>
                                    \o SubSeq(text, k + 1, Len(text))
             /\ Within
                  => /\ subject[atLine] = SubSeq(whole[atLine], 1, atCol - 1)
                                             \o <<Newline>>
                     /\ subject[atLine + 1] =
                          SubSeq(whole[atLine], atCol, Len(whole[atLine]))
                     /\ \A l \in 1..Len(whole) :
                          l # atLine => subject[IF l < atLine THEN l ELSE l + 1] = whole[l]
  /\ merged # NotRun => (~merged.val /\ subject = whole)

\* a line of two letters was cut between them and the cut was undone
NewlineSplitMergeWitness ==
  /\ merged # NotRun
  /\ Len(whole) = 1 /\ Len(whole[1]) = 2 /\ atCol = 2
  /\ subject = whole

\* ------------------------------------------------------ text of a selection
\* Manager.extractTextBetweenCoords: the runes written, start and end being
\* <<line, column>>; the caller's order is normalized first
RECURSIVE extractLines(_, _, _, _)
extractLines(d, lineNum, start, end) ==
  IF lineNum > end[1] \/ lineNum > Len(d) THEN <<>>
  ELSE LET line == d[lineNum]
           startCol == IF lineNum = start[1] THEN start[2] ELSE 1
           endCol == IF lineNum = end[1] THEN end[2] - 1 ELSE Len(line)
           upTo == min(endCol, Len(line))
           cols == [i \in 1..max(upTo - startCol + 1, 0) |-> line[startCol + i - 1].value]
       IN cols \o (IF lineNum < end[1] THEN <<NL>> ELSE <<>>)
               \o extractLines(d, lineNum + 1, start, end)

extractTextBetweenCoords(d, start, end) ==
  IF Len(d) = 0 THEN <<>>
  ELSE LET swap == start[1] > end[1] \/ (start[1] = end[1] /\ start[2] > end[2])
           lo == IF swap THEN end ELSE start
           hi == IF swap THEN start ELSE end
       IN encodeRunes(extractLines(d, lo[1], lo, hi))

\* Manager.ExtractTextFromSelection
ExtractTextFromSelection(d, startPos, endPos) ==
  extractTextBetweenCoords(d, GetTextCoordsFromCRDTPosition(d, startPos),
                              GetTextCoordsFromCRDTPosition(d, endPos))

\* a document built from a text and two positions it holds
SelStart ==
  /\ selDoc \in LineDocs
  /\ selFrom \in PositionsOf(selDoc)
  /\ selTo \in PositionsOf(selDoc)
  /\ picked = NoText /\ pickedBack = NoText

Extract ==
  /\ picked = NoText
  /\ picked' = ExtractTextFromSelection(selDoc, selFrom, selTo)
  /\ UNCHANGED <<selDoc, selFrom, selTo, pickedBack, exceptSel>>

ExtractBack ==
  /\ pickedBack = NoText
  /\ pickedBack' = ExtractTextFromSelection(selDoc, selTo, selFrom)
  /\ UNCHANGED <<selDoc, selFrom, selTo, picked, exceptSel>>

SelInit == SelStart /\ IdleBut("sel")
SelNext == Extract \/ ExtractBack
SpecSel == SelInit /\ [][SelNext]_vars

\* the index of the character at a position in line-then-character order
indexOf(d, position) ==
  CHOOSE i \in 1..Len(flatten(d)) : flatten(d)[i].pos = position

\* the text of the characters from the one at a to the one before b
Between(d, a, b) ==
  LET i == min(indexOf(d, a), indexOf(d, b))
      j == max(indexOf(d, a), indexOf(d, b))
  IN SubSeq(ToText(d), i, j - 1)

\* C21 ExtractText: the text extracted for two positions of the document is
\* the part of ToText from the character at the first of them (inclusive) to
\* the character at the second (exclusive), and the same text is extracted
\* when the two positions are given in the other order.
ExtractText ==
  /\ picked # NoText => picked = Between(selDoc, selFrom, selTo)
  /\ (picked # NoText /\ pickedBack # NoText) => picked = pickedBack

\* C22 GUI text change: a processTextChange that starts with lastText equal
\* to the document's text ends with the document's text and lastText both
\* equal to the text the entry widget reported.
GuiTextChange ==
  [][(lastText = ToText(gdoc) /\ ~gpanic')
       => (ToText(gdoc') = lastText')]_guiVars

\* the characters in line-then-character order are strictly increasing
Sorted(d) ==
  LET all == flatten(d)
  IN \A i \in 1..(Len(all) - 1) : comparePositions(all[i].pos, all[i + 1].pos) < 0

\* C23 Sorted document: after every applied operation the characters of the
\* document, in line-then-character order, are strictly increasing under
\* comparePositions.
SortedDocument == Len(hist) >= 1 => Sorted(hdoc)

\* a newline is the last character of its line, and the lines that end in a
\* newline are the lines that have a successor
NewlinesEndLines(d) ==
  \A l \in 1..Len(d) :
    /\ \A c \in 1..Len(d[l]) : d[l][c].value = NL => c = Len(d[l])
    /\ (Len(d[l]) > 0 /\ d[l][Len(d[l])].value = NL) <=> l < Len(d)

\* C24 Newline placement: in every document a peer of the terminal editor
\* holds (the EditorState's and the TUI's), after local keys, received
\* operations and Syncs, a newline is the last character of its line, a line
\* that ends in a newline has a successor, and every line but the last ends
\* in a newline.
NewlinePlacement ==
  \A p \in Peers :
    /\ NewlinesEndLines(document[p])
    /\ tui[p] # <<>> => NewlinesEndLines(tui[p][1])

\* a peer whose document had two lines has applied a newline it received
NewlinePlacementWitness ==
  /\ lastStep.kind = "receive" /\ lastStep.type = "operation"
  /\ lastStep.op.type = "insert" /\ lastStep.op.character = NL
  /\ Len(lastStep.before) = 2
  /\ Len(document[lastStep.peer]) = 3

NoAlgebraFailure == lastStep.kind = "insert" => ~crashed[lastStep.peer]

\* every identifier of every character has a digit in [0, BASE)
DigitsInRange(d) ==
  \A l \in 1..Len(d) : \A c \in 1..Len(d[l]) : \A i \in 1..Len(d[l][c].pos) :
    d[l][c].pos[i].digit >= 0 /\ d[l][c].pos[i].digit < BASE

\* C27 Digit range: every identifier of every character of every reachable
\* document has 0 <= digit < BASE; stated for the documents FromText builds,
\* from a text of any length.
DigitRange == textDoc # NoDoc => DigitsInRange(textDoc)

\* ------------------------------------------- replicas allocating side by side
\* positions of the shared document: the sampled positions made of the
\* least digit FromText gives and of the greatest digit, allocated by the
\* replicas with the least and the greatest node id
TagPositions ==
  {p \in Positions :
     \A i \in 1..Len(p) : p[i].digit \in {1, BASE - 1} /\ p[i].node \in {1, 3}}

\* the document holds at most two of them
TagStart ==
  /\ held \in {{}} \cup {{p, q} : p \in TagPositions, q \in TagPositions}
  /\ tagged = <<>>

\* a replica that has not allocated yet calls generatePositionBetween with
\* its node id, between two positions of the document in order or a virtual
\* endpoint
AllocateBetween ==
  /\ Len(tagged) < 2
  /\ \E node \in Nodes \ {tagged[i].node : i \in 1..Len(tagged)} :
       \E lo \in held \cup {<<>>}, hi \in held \cup {<<>>} :
         /\ (lo # <<>> /\ hi # <<>>) => Less(lo, hi)
         /\ tagged' = Append(tagged,
              [node |-> node, lo |-> lo, hi |-> hi,
               out |-> generatePositionBetween(lo, hi, node)])
  /\ UNCHANGED <<held, exceptTag>>

TagInit == TagStart /\ IdleBut("tag")

SpecTag == TagInit /\ [][AllocateBetween]_vars

\* C28 Allocator tag: the last identifier of every position that
\* generatePositionBetween returns carries the allocating node's id, and the
\* positions two replicas with different node ids get are never equal,
\* whatever neighbours each of them allocated between.
AllocatorTag ==
  \A i \in 1..Len(tagged) :
    ~tagged[i].out.panic =>
      /\ Len(tagged[i].out.val) > 0
      /\ tagged[i].out.val[Len(tagged[i].out.val)].node = tagged[i].node
      /\ \A j \in 1..Len(tagged) :
           (j # i /\ ~tagged[j].out.panic) => tagged[j].out.val # tagged[i].out.val

\* two replicas have allocated between the same two positions of the
\* document, and their positions differ in nothing but the last node
AllocatorTagWitness ==
  /\ Len(tagged) = 2
  /\ tagged[1].lo # <<>> /\ tagged[1].hi # <<>>
  /\ tagged[2].lo = tagged[1].lo /\ tagged[2].hi = tagged[1].hi
  /\ ~tagged[1].out.panic /\ ~tagged[2].out.panic
  /\ Len(tagged[1].out.val) = Len(tagged[2].out.val)
  /\ \A k \in 1..Len(tagged[1].out.val) :
       /\ tagged[1].out.val[k].digit = tagged[2].out.val[k].digit
       /\ k < Len(tagged[1].out.val)
            => tagged[1].out.val[k].node = tagged[2].out.val[k].node

\* C29 Local operation clocks: an operation a replica produces by a key
\* carries a clock strictly greater than the clock of the operation that
\* replica produced by its previous key (stated where the replica's previous
\* key is the step before).
LocalClocksIncrease ==
  [][(/\ edits' = edits + 1
      /\ lastStep.kind \in {"insert", "backspace"}
      /\ lastStep'.peer = lastStep.peer
      /\ ~crashed'[lastStep'.peer])
       => lastStep'.op.clock > lastStep.op.clock]_vars

\* a document reflects an operation: it holds the inserted character at the
\* operation's position, or holds nothing at the deleted position
Reflects(d, op) ==
  IF op.type = "insert"
  THEN \E l \in 1..Len(d) : \E c \in 1..Len(d[l]) :
         d[l][c].pos = op.position /\ d[l][c].value = op.character
  ELSE ~Holds(d, op.position)

\* C30 Apply before broadcast: when a key of a replica has written an
\* operation to a connection, the document of that replica's editor state
\* reflects the operation.
ApplyBeforeBroadcast ==
  (/\ lastStep.kind \in {"insert", "backspace"}
   /\ ~crashed[lastStep.peer]
   /\ lastStep.had \ lastStep.failed # {})
    => Reflects(document[lastStep.peer], lastStep.op)

\* ------------------------------------------------ tasks around the mutex
\* sync.Mutex / sync.RWMutex: Lock waits until nobody holds the mutex, RLock
\* until no writer holds it
Lock(t) ==
  /\ mutex = Unlocked
  /\ mutex' = [mutex EXCEPT !.writer = t]

Unlock(t) ==
  /\ mutex.writer = t
  /\ mutex' = [mutex EXCEPT !.writer = ""]

RLock(t) ==
  /\ mutex.writer = ""
  /\ mutex' = [mutex EXCEPT !.readers = @ \cup {t}]

RUnlock(t) ==
  /\ t \in mutex.readers
  /\ mutex' = [mutex EXCEPT !.readers = @ \ {t}]

Holder(t) == mutex.writer = t \/ t \in mutex.readers

\* a task's place in its code and the Document object it works on there
At(place, object) == [at |-> place, doc |-> object]

Goes(t, place, object) == pc' = [pc EXCEPT ![t] = At(place, object)]

\* Sync messages one peer receives
MaxSyncs == 2

\* the tasks of a peer: the bubbletea loop (model.Update), the receive loop
\* of a connection (EditorState.listenForMessages) and the accept loop of main
PeerTasks == {"ui", "recv", "accept"}

PeerStart ==
  /\ pc = [t \in PeerTasks |->
             At(IF t = "ui" THEN "idle" ELSE IF t = "recv" THEN "read" ELSE "accept", 0)]
  /\ mutex = Unlocked
  /\ edoc = 0 /\ mdoc = 0 /\ told = <<>>

\* model.Update, a key: m.doc.InsertCharacter / m.doc.DeleteCharacter on the
\* object m.doc points to, with model.mutex held and EditorState.mutex not
UiEdit ==
  /\ pc["ui"].at = "idle"
  /\ Goes("ui", "edit", mdoc)
  /\ UNCHANGED <<mutex, edoc, mdoc, told, exceptLock>>

\* sendInsertOperation / sendDeleteOperation: m.editorState.Connections()
\* locks, copies the connection list ...
UiConnections ==
  /\ pc["ui"].at = "edit"
  /\ Lock("ui")
  /\ Goes("ui", "copy", mdoc)
  /\ UNCHANGED <<edoc, mdoc, told, exceptLock>>

\* ... and unlocks on return; the loop over the copy then calls SendOperation
UiSend ==
  /\ pc["ui"].at = "copy"
  /\ Unlock("ui")
  /\ Goes("ui", "send", mdoc)
  /\ UNCHANGED <<edoc, mdoc, told, exceptLock>>

UiSent ==
  /\ pc["ui"].at = "send"
  /\ Goes("ui", "idle", mdoc)
  /\ UNCHANGED <<mutex, edoc, mdoc, told, exceptLock>>

\* model.Update, a networkMessageUpdate with a Sync: m.doc = msg.Document
UiSync ==
  /\ pc["ui"].at = "idle"
  /\ told # <<>>
  /\ mdoc' = Head(told)
  /\ told' = Tail(told)
  /\ Goes("ui", "idle", Head(told))
  /\ UNCHANGED <<mutex, edoc, exceptLock>>

\* EditorState.handleMessage of an Operation: Lock, then
\* e.document.InsertCharacter / DeleteCharacter
HandleOperation ==
  /\ pc["recv"].at = "read"
  /\ Lock("recv")
  /\ Goes("recv", "apply", edoc)
  /\ UNCHANGED <<edoc, mdoc, told, exceptLock>>

\* EditorState.handleMessage of a Sync: Lock, then e.document = msg.Document,
\* the object the decoder has made
HandleSync ==
  /\ pc["recv"].at = "read"
  /\ edoc < MaxSyncs
  /\ Lock("recv")
  /\ edoc' = edoc + 1
  /\ Goes("recv", "replace", edoc + 1)
  /\ UNCHANGED <<mdoc, told, exceptLock>>

\* the listeners are started (go listener(msg)) and the deferred Unlock runs;
\* the TUI's listener passes the message on to the bubbletea loop
HandleDone ==
  /\ pc["recv"].at \in {"apply", "replace"}
  /\ Unlock("recv")
  /\ told' = IF pc["recv"].at = "replace" THEN Append(told, pc["recv"].doc) ELSE told
  /\ Goes("recv", "read", edoc)
  /\ UNCHANGED <<edoc, mdoc, exceptLock>>

\* main's accept loop: editorState.AddConn(conn) locks and appends to e.conns
AddConn ==
  /\ pc["accept"].at = "accept"
  /\ Lock("accept")
  /\ Goes("accept", "append", edoc)
  /\ UNCHANGED <<edoc, mdoc, told, exceptLock>>

\* AddConn starts the connection's receive loop and returns (Unlock)
AddConnDone ==
  /\ pc["accept"].at = "append"
  /\ Unlock("accept")
  /\ Goes("accept", "added", edoc)
  /\ UNCHANGED <<edoc, mdoc, told, exceptLock>>

\* editorState.Document() locks and reads the pointer
Document ==
  /\ pc["accept"].at = "added"
  /\ Lock("accept")
  /\ Goes("accept", "document", edoc)
  /\ UNCHANGED <<edoc, mdoc, told, exceptLock>>

\* Document() returns (Unlock) and messages.SendSync(conn, doc, userNodeID)
\* serialises that object and writes it to the connection
SendSync ==
  /\ pc["accept"].at = "document"
  /\ Unlock("accept")
  /\ Goes("accept", "sync", pc["accept"].doc)
  /\ UNCHANGED <<edoc, mdoc, told, exceptLock>>

SyncSent ==
  /\ pc["accept"].at = "sync"
  /\ Goes("accept", "accept", edoc)
  /\ UNCHANGED <<mutex, edoc, mdoc, told, exceptLock>>

PeerInit == PeerStart /\ IdleBut("lock")

PeerNext ==
  \/ UiEdit \/ UiConnections \/ UiSend \/ UiSent \/ UiSync
  \/ HandleOperation \/ HandleSync \/ HandleDone
  \/ AddConn \/ AddConnDone \/ Document \/ SendSync \/ SyncSent

SpecPeer == PeerInit /\ [][PeerNext]_vars

\* the tasks of the server process: main's accept loop and one HandleClient
\* goroutine per client, started when AddClient has returned
Clients == {"client1", "client2", "client3"}

ServerStart ==
  /\ pc = [t \in Clients \cup {"main"} |-> At(IF t = "main" THEN "accept" ELSE "none", 0)]
  /\ mutex = Unlocked
  /\ edoc = 0 /\ mdoc = 0 /\ told = <<>>

\* Server.AddClient: s.mutex.Lock(), the client is put into s.clients ...
AddClient ==
  /\ pc["main"].at = "accept"
  /\ \E c \in Clients : pc[c].at = "none"
  /\ Lock("main")
  /\ Goes("main", "register", 0)
  /\ UNCHANGED <<edoc, mdoc, told, exceptLock>>

\* ... and messages.SendInit(conn, s.document) is called before AddClient
\* returns
SendInit ==
  /\ pc["main"].at = "register"
  /\ Goes("main", "sendInit", 0)
  /\ UNCHANGED <<mutex, edoc, mdoc, told, exceptLock>>

\* AddClient returns (deferred Unlock); go client.HandleClient()
AddClientDone ==
  /\ pc["main"].at = "sendInit"
  /\ Unlock("main")
  /\ \E c \in Clients :
       /\ pc[c].at = "none"
       /\ pc' = [pc EXCEPT !["main"] = At("accept", 0), ![c] = At("read", 0)]
  /\ UNCHANGED <<edoc, mdoc, told, exceptLock>>

\* HandleClient, an Operation: handleOperation calls Server.ApplyOperation,
\* which locks and applies the operation to s.document
ApplyOperation ==
  /\ \E c \in Clients :
       /\ pc[c].at = "read"
       /\ Lock(c)
       /\ Goes(c, "apply", 0)
  /\ UNCHANGED <<edoc, mdoc, told, exceptLock>>

\* ApplyOperation returns (Unlock)
ApplyDone ==
  /\ \E c \in Clients :
       /\ pc[c].at = "apply"
       /\ Unlock(c)
       /\ Goes(c, "applied", 0)
  /\ UNCHANGED <<edoc, mdoc, told, exceptLock>>

\* Server.BroadcastOperation after an applied operation, BroadcastCursor /
\* BroadcastSelection for a Cursor or Selection message: s.mutex.RLock(), then
\* a Send to every other client in s.clients
BroadcastOperation ==
  /\ \E c \in Clients :
       /\ pc[c].at \in {"applied", "read"}
       /\ RLock(c)
       /\ Goes(c, "broadcast", 0)
  /\ UNCHANGED <<edoc, mdoc, told, exceptLock>>

\* the broadcast returns (deferred RUnlock)
BroadcastDone ==
  /\ \E c \in Clients :
       /\ pc[c].at = "broadcast"
       /\ RUnlock(c)
       /\ Goes(c, "read", 0)
  /\ UNCHANGED <<edoc, mdoc, told, exceptLock>>

\* HandleClient, a Sync: handleSync calls GetDocumentState (RLock, the
\* pointer, RUnlock) ...
GetDocumentState ==
  /\ \E c \in Clients :
       /\ pc[c].at = "read"
       /\ RLock(c)
       /\ Goes(c, "document", 0)
  /\ UNCHANGED <<edoc, mdoc, told, exceptLock>>

\* ... and messages.SendSync(c.Conn, doc, nodeID) serialises and writes it
handleSync ==
  /\ \E c \in Clients :
       /\ pc[c].at = "document"
       /\ RUnlock(c)
       /\ Goes(c, "sync", 0)
  /\ UNCHANGED <<edoc, mdoc, told, exceptLock>>

handleSyncDone ==
  /\ \E c \in Clients :
       /\ pc[c].at = "sync"
       /\ Goes(c, "read", 0)
  /\ UNCHANGED <<mutex, edoc, mdoc, told, exceptLock>>

ServerInit == ServerStart /\ IdleBut("lock")

ServerNext ==
  \/ AddClient \/ SendInit \/ AddClientDone
  \/ ApplyOperation \/ ApplyDone \/ BroadcastOperation \/ BroadcastDone
  \/ GetDocumentState \/ handleSync \/ handleSyncDone

SpecServer == ServerInit /\ [][ServerNext]_vars

\* places where a task is inside a write to a socket
Sending == {"send", "sync", "sendInit", "broadcast"}

\* C31 No send under the lock: no task is inside a socket send while it
\* holds the mutex of the hub that owns the document and the connections.
NoSendUnderLock ==
  \A t \in DOMAIN pc : pc[t].at \in Sending => ~Holder(t)

\* places where a task is inside a mutation of a Document object, of the
\* owner's document pointer or of the connection set, and where it reads a
\* Document object through (json.Marshal in SendSync)
Mutating == {"edit", "apply"}

Writing == Mutating \cup {"replace", "append"}

Reading == {"sync"}

\* C32 Single lock: a task that mutates the replica's Document or its
\* connection set holds the mutex, and no task reads or mutates a Document
\* object while another task mutates the same object.
SingleLock ==
  /\ \A t \in DOMAIN pc : pc[t].at \in Writing => Holder(t)
  /\ \A t \in DOMAIN pc : \A u \in DOMAIN pc \ {t} :
       (pc[t].at \in Mutating /\ pc[u].at \in Mutating \cup Reading)
         => pc[t].doc # pc[u].doc

\* C33 Sync handling: after a Sync has been received, the peer's document is
\* the Sync's document when the Sync carries one and its user_id is not the
\* peer's node id, and the document the peer had before otherwise.
SyncHandling ==
  (lastStep.kind = "receive" /\ lastStep.type = "sync")
    => LET msg == Head(lastStep.pending)
       IN document[lastStep.peer] =
            IF msg.document # NoDoc /\ msg.user_id # lastStep.peer
            THEN msg.document ELSE lastStep.before

\* a peer whose document holds a character has received a Sync of another
\* node with another document, and holds nothing of what it had
SyncHandlingWitness ==
  /\ lastStep.kind = "receive" /\ lastStep.type = "sync"
  /\ flatten(lastStep.before) # <<>>
  /\ Head(lastStep.pending).document # NoDoc
  /\ Head(lastStep.pending).user_id # lastStep.peer
  /\ document[lastStep.peer] = FromText(<<98>>, Head(lastStep.pending).user_id)
  /\ document[lastStep.peer] # lastStep.before

\* C34 Presence and control messages do not change state: a step that
\* receives a Cursor, Selection, Ack or Error message leaves every peer's
\* document, the document and the clock of its front end and its connection
\* set as they were.
ControlMessages ==
  [][(lastStep'.kind = "receive"
        /\ lastStep'.type \in {"cursor", "selection", "ack", "error"})
      => (document' = document /\ tui' = tui /\ mclock' = mclock /\ conns' = conns)]_vars

\* a peer holding a character has received a Cursor message with its payload
ControlMessagesWitness ==
  /\ lastStep.kind = "receive" /\ lastStep.type = "cursor"
  /\ Head(lastStep.pending).cursor
  /\ flatten(document[lastStep.peer]) # <<>>
  /\ conns[lastStep.peer] # {}

\* C35 Bad frames are skipped: after a peer has read a frame that is no JSON
\* of a message or a message of an unknown kind, the connection the frame
\* came on is still in the peer's connection set and has not been closed by
\* the peer.
BadFramesSkipped ==
  (lastStep.kind = "receive" /\ lastStep.type \in {"garbage", "unknown"})
    => /\ lastStep.from \in conns[lastStep.peer]
       /\ net[<<lastStep.peer, lastStep.from>>] = lastStep.out

\* ------------------------------------- the editor state's own edit methods
\* calls of EditorState.InsertCharacter / EditorState.DeleteCharacter one
\* replica makes
MaxLocalOps == 3

\* the replica's connections, in the order of e.conns
Remote == <<2, 3>>

\* NewEditorState(doc, 1) on the document of a one-letter file, two
\* connections added
OrderStart ==
  /\ sdoc = FromText(<<97>>, 1)
  /\ sclock = 1
  /\ issued = <<>>
  /\ progress = <<>>
  /\ wire = [c \in 1..Len(Remote) |-> <<>>]

\* EditorState.InsertCharacter(char, pos) with a position the caller got from
\* GeneratePositionAt on e.Document(): the clock is raised, the character
\* applied, and the broadcast handed to a new goroutine
EditorInsert ==
  /\ sclock <= MaxLocalOps
  /\ \E lc \in Places(sdoc) : \E v \in Typed :
       LET g == GeneratePositionAt(sdoc, lc[1], lc[2], 1)
       IN /\ ~g.panic
          /\ sdoc' = InsertCharacter(sdoc, v, g.val, sclock + 1)
          /\ issued' = Append(issued, InsertOp(g.val, v, 1, sclock + 1))
  /\ sclock' = sclock + 1
  /\ progress' = Append(progress, 0)
  /\ UNCHANGED <<wire, exceptOrder>>

\* EditorState.DeleteCharacter(pos): the clock is raised; when the document
\* does not hold the position the error is returned and nothing is broadcast
EditorDelete ==
  /\ sclock <= MaxLocalOps
  /\ \E position \in PositionsOf(sdoc) \cup {<<Identifier(BASE - 1, 1)>>} :
       LET r == DeleteCharacter(sdoc, position)
       IN /\ sdoc' = r.doc
          /\ issued' = IF r.err THEN issued
                       ELSE Append(issued, DeleteOp(position, 1, sclock + 1))
          /\ progress' = IF r.err THEN progress ELSE Append(progress, 0)
  /\ sclock' = sclock + 1
  /\ UNCHANGED <<wire, exceptOrder>>

\* one turn of the loop of a BroadcastMessage goroutine: SendMessage writes
\* the goroutine's message to the next connection of its snapshot
BroadcastMessage ==
  /\ \E i \in 1..Len(issued) :
       /\ progress[i] < Len(Remote)
       /\ progress' = [progress EXCEPT ![i] = @ + 1]
       /\ wire' = [wire EXCEPT ![progress[i] + 1] = Append(@, issued[i])]
  /\ UNCHANGED <<sdoc, sclock, issued, exceptOrder>>

OrderInit == OrderStart /\ IdleBut("order")

OrderNext == EditorInsert \/ EditorDelete \/ BroadcastMessage

SpecOrder == OrderInit /\ [][OrderNext]_vars

\* C36 Per-peer order: on every connection the operations are written, and
\* so received and applied by the peer, in the order in which the replica
\* applied them.
PerPeerOrder ==
  \A c \in 1..Len(wire) : \A a \in 1..Len(wire[c]) : \A b \in 1..Len(wire[c]) :
    a < b => wire[c][a].clock < wire[c][b].clock

\* C37 No position reuse: the positions a replica has allocated for its
\* inserts, over any sequence of its inserts and deletes, are pairwise
\* distinct.
NoPositionReuse ==
  \A i \in 1..Len(issued) : \A j \in 1..Len(issued) :
    (i < j /\ issued[i].type = "insert" /\ issued[j].type = "insert")
      => issued[i].position # issued[j].position

\* C38 One document per replica: when a key of a peer has edited a document,
\* or the peer's editor state has applied a received operation, the document
\* the front end points to is the document of the editor state.
OneDocument ==
  (\/ lastStep.kind \in {"insert", "backspace"}
   \/ lastStep.kind = "receive" /\ lastStep.type = "operation")
    => tui[lastStep.peer] = <<>>

\* C39 No trailing zero digit: given input positions whose last digit is not
\* 0, the position generatePositionBetween returns never ends in an
\* identifier with digit 0.
NoTrailingZero ==
  \A i \in 1..Len(tagged) :
    ~tagged[i].out.panic =>
      /\ Len(tagged[i].out.val) > 0
      /\ tagged[i].out.val[Len(tagged[i].out.val)].digit # 0

\* a replica has allocated after a neighbour whose last digit is BASE - 1,
\* at that neighbour's length: the first sum of Increment ends in 0 and the
\* position returned is one increment further
NoTrailingZeroWitness ==
  \E i \in 1..Len(tagged) :
    LET lo == FromIdentifierList(tagged[i].lo)
        hi == FromIdentifierList(tagged[i].hi)
        delta == SubtractGreaterThan(hi, lo)
        inc == SubSeq(delta, 1, firstNonZeroDigit(delta) - 1) \o <<0, 1>>
        once == Add(lo, inc)
    IN /\ tagged[i].lo # <<>> /\ tagged[i].hi # <<>>
       /\ tagged[i].lo[1].digit # tagged[i].hi[1].digit
       /\ firstNonZeroDigit(delta) # 0
       /\ ~once.panic /\ once.val[Len(once.val)] = 0
       /\ ~tagged[i].out.panic
       /\ FromIdentifierList(tagged[i].out.val) = Add(once.val, inc).val
====
